---------------------------- MODULE Spec2Model ----------------------------
(***************************************************************************)
(* Model of the catalogue crawler of books_scraping_api:                   *)
(* src/application/scraper.py, class RunScraper.  One run of               *)
(* RunScraper.execute walks the listing pages, fetches every detail page,  *)
(* extracts one record per page and writes the records to books.csv.       *)
(*                                                                         *)
(* The web site is the environment: every requests.get answers with any    *)
(* response of a bounded set.  A node of a parsed document that find() may *)
(* or may not return is a sequence of length 0 (None) or 1 (the node).     *)
(* Texts that the code parses are sequences of one-character strings;      *)
(* float values are fixed-point integers counting hundredths.              *)
(***************************************************************************)
EXTENDS Integers, Sequences, FiniteSets, TLC

(***************************************************************************)
(* Bounds of the model.                                                    *)
(***************************************************************************)
MaxPages == 2      \* listing pages fetched in one run
MaxCards == 2      \* product cards on one listing page
MaxItems == 3      \* product cards on the listing pages of one run
MaxRunItems == 1    \* detail pages handled by each of the overlapping runs
MaxLogins == 2      \* tokens issued by POST /v1/auth/login
MaxCalls == 5       \* calls of start() and stop() on the collector
MaxTicks == 2       \* metrics sent by one collection loop
MaxRows == 2       \* data rows of books.csv

(***************************************************************************)
(* Optional values: None is <<>>, Some(v) is <<v>>.                        *)
(***************************************************************************)
None == <<>>
Some(v) == <<v>>
Opt(S) == {None} \cup {Some(v) : v \in S}
Last(s) == s[Len(s)]
Front(s) == SubSeq(s, 1, Len(s) - 1)

(***************************************************************************)
(* URLs.  urllib.parse.urljoin on [scheme, path]; the path is the sequence *)
(* of its segments and a reference with scheme "" is relative.             *)
(***************************************************************************)
BASE_URL == [scheme |-> "https", path |-> <<"catalogue", "">>]

RECURSIVE RemoveDots(_, _)
RemoveDots(segs, acc) ==
    IF segs = <<>> THEN acc
    ELSE IF Head(segs) = ".." THEN
        RemoveDots(Tail(segs), IF acc = <<>> THEN acc ELSE Front(acc))
    ELSE IF Head(segs) = "." THEN RemoveDots(Tail(segs), acc)
    ELSE RemoveDots(Tail(segs), Append(acc, Head(segs)))

urljoin(base, ref) ==
    IF ref.scheme # "" THEN ref
    ELSE IF ref.path = <<>> THEN base
    ELSE [scheme |-> base.scheme,
          path |-> RemoveDots(Front(base.path) \o ref.path, <<>>)]

HasScheme(url) == url.scheme # ""

\* requests.get raises InvalidSchema (a RequestException) for any other scheme
Fetchable(url) == url.scheme \in {"http", "https"}

(***************************************************************************)
(* Text helpers: str.replace(c, ''), str.strip(), float(), re.search.      *)
(***************************************************************************)
DigitChars == {"0", "1", "2", "3", "4", "5", "6", "7", "8", "9"}
DigitVal(c) ==
    CASE c = "0" -> 0 [] c = "1" -> 1 [] c = "2" -> 2 [] c = "3" -> 3
      [] c = "4" -> 4 [] c = "5" -> 5 [] c = "6" -> 6 [] c = "7" -> 7
      [] c = "8" -> 8 [] c = "9" -> 9

Remove(s, c) == SelectSeq(s, LAMBDA x : x # c)

RECURSIVE LStrip(_)
LStrip(s) == IF s # <<>> /\ Head(s) = " " THEN LStrip(Tail(s)) ELSE s
RECURSIVE RStrip(_)
RStrip(s) == IF s # <<>> /\ Last(s) = " " THEN RStrip(Front(s)) ELSE s
Strip(s) == RStrip(LStrip(s))

RECURSIVE ToNat(_)
ToNat(digs) == IF digs = <<>> THEN 0 ELSE 10 * ToNat(Front(digs)) + DigitVal(Last(digs))

Unsigned(s) == IF s # <<>> /\ Head(s) \in {"+", "-"} THEN Tail(s) ELSE s
DotPos(s) == IF \E i \in 1..Len(s) : s[i] = "."
             THEN CHOOSE i \in 1..Len(s) : s[i] = "." /\ \A j \in 1..(i-1) : s[j] # "."
             ELSE Len(s) + 1
IntPart(s) == SubSeq(s, 1, DotPos(s) - 1)
FracPart(s) == SubSeq(s, DotPos(s) + 1, Len(s))

\* the texts float() accepts: [sign] digits [. digits] or [sign] . digits
IsFloatText(s) ==
    LET b == Unsigned(s) IN
    /\ \A i \in 1..Len(b) : b[i] \in DigitChars \cup {"."}
    /\ Cardinality({i \in 1..Len(b) : b[i] = "."}) <= 1
    /\ \E i \in 1..Len(b) : b[i] \in DigitChars

Hundredths(frac) ==
    (IF Len(frac) >= 1 THEN 10 * DigitVal(frac[1]) ELSE 0)
    + (IF Len(frac) >= 2 THEN DigitVal(frac[2]) ELSE 0)

\* float(s) of a text float() accepts, in hundredths
FloatOf(s) ==
    LET b == Unsigned(s)
        mag == 100 * ToNat(IntPart(b)) + Hundredths(FracPart(b))
    IN IF s # <<>> /\ Head(s) = "-" THEN 0 - mag ELSE mag

\* float(price_text.replace('£', '').strip()): line 116
PriceClean(price_text) == Strip(Remove(price_text, "£"))

\* re.search(r'\((\d+) available\)', text): the token "a" is the literal
\* " available)"; the result is None or the digits of the leftmost match
AvailMatches(text) ==
    {p \in (1..Len(text)) \X (1..Len(text)) :
        /\ p[1] + 1 < p[2]
        /\ text[p[1]] = "("
        /\ text[p[2]] = "a"
        /\ \A k \in (p[1] + 1)..(p[2] - 1) : text[k] \in DigitChars}
AvailSearch(text) ==
    IF AvailMatches(text) = {} THEN None
    ELSE LET p == CHOOSE q \in AvailMatches(text) :
                    \A r \in AvailMatches(text) : q[1] <= r[1]
         IN Some(SubSeq(text, p[1] + 1, p[2] - 1))

(***************************************************************************)
(* Detail pages.                                                           *)
(***************************************************************************)
Titles == {"", "A Light in the Attic"}
PriceTexts == {<<"£", "5", ".", "5">>,        \* "£5.5"
               <<" ", "£", "5", " ">>,        \* " £5 "
               <<"£", ".", "5">>,             \* "£.5"
               <<"-", "£", "5">>,             \* "-£5"
               <<"£", "-", "0", ".", "5">>,   \* "£-0.5"
               <<"£", "x">>,                  \* "£x"
               <<"£", "5", " ", "5">>,        \* "£5 5"
               <<"£", "-">>,                  \* "£-"
               <<"£">>}                       \* "£"
RatingTokens == {"Zero", "One", "Two", "Three", "Four", "Five"}
ClassLists == {<<"star-rating">>} \cup {<<"star-rating", t>> : t \in RatingTokens}
AvailTexts == {<<"x", "(", "7", "a">>,             \* "In stock (7 available)"
               <<" ", "x", "(", "1", "2", "a", " ">>, \* " In stock (12 available) "
               <<"x">>,                             \* "In stock"
               <<"(", "a">>,                        \* "( available)"
               <<"(", "7", "a", "(", "2", "a">>}    \* "(7 available)(2 available)"
LinkLists == {<<>>, <<"Home", "Books">>, <<"Home", "Books", "Poetry">>,
              <<"Home", "Books", "Poetry", "Verse">>}
ImageRefs == {[scheme |-> "", path |-> <<"..", "..", "media", "a.jpg">>],
              [scheme |-> "", path |-> <<>>],
              [scheme |-> "http", path |-> <<"cdn", "a.jpg">>]}

\* div#product_gallery: None, or the img inside it: None, or its src: None
Galleries == Opt(Opt(Opt(ImageRefs)))

Documents ==
    [h1 : Opt(Titles), price_color : Opt(PriceTexts),
     star_rating : Opt(ClassLists), availability : Opt(AvailTexts),
     breadcrumb : Opt(LinkLists), product_gallery : Galleries]

GoodDocument ==
    [h1 |-> Some("A Light in the Attic"),
     price_color |-> Some(<<"£", "5", ".", "5">>),
     star_rating |-> Some(<<"star-rating", "Three">>),
     availability |-> Some(<<"x", "(", "7", "a">>),
     breadcrumb |-> Some(<<"Home", "Books", "Poetry">>),
     product_gallery |-> Some(Some(Some([scheme |-> "",
                              path |-> <<"..", "..", "media", "a.jpg">>])))]

\* the detail pages a run meets: the well-formed page and pages that differ
\* from it in one field
SampleDocuments ==
    {GoodDocument,
     [GoodDocument EXCEPT !.price_color = Some(<<"£", "x">>)],
     [GoodDocument EXCEPT !.star_rating = None],
     [GoodDocument EXCEPT !.availability = Some(<<"x">>)],
     [GoodDocument EXCEPT !.breadcrumb = None],
     [GoodDocument EXCEPT !.breadcrumb = Some(<<"Home", "Books">>)]}

\* what requests.get(book_url) answers: an error, or a document
DetailResponses ==
    {[ok |-> FALSE, doc |-> GoodDocument]}
    \cup {[ok |-> TRUE, doc |-> d] : d \in SampleDocuments}


(***************************************************************************)
(* RunScraper._get_book_details: lines 108-155.                            *)
(***************************************************************************)
\* variant: the five tokens only, any other token left without a rating
rating_map_NoDefault(rating_text) ==
    CASE rating_text = "One" -> 1
      [] rating_text = "Two" -> 2
      [] rating_text = "Three" -> 3
      [] rating_text = "Four" -> 4
      [] rating_text = "Five" -> 5
      [] OTHER -> -1

\* rating_map.get(rating_text, 0): lines 118-122
rating_map(rating_text) ==
    CASE rating_text = "One" -> 1
      [] rating_text = "Two" -> 2
      [] rating_text = "Three" -> 3
      [] rating_text = "Four" -> 4
      [] rating_text = "Five" -> 5
      [] OTHER -> 0

\* variant: a text without a count is left without a number
AvailabilityOf_NoDefault(availability_text) ==
    LET match == AvailSearch(availability_text)
    IN IF match # None THEN ToNat(match[1]) ELSE -1

\* int(match.group(1)) if match else 0: lines 127-128
AvailabilityOf(availability_text) ==
    LET match == AvailSearch(availability_text)
    IN IF match # None THEN ToNat(match[1]) ELSE 0

\* the exception the statements of lines 109-137 raise, in statement order;
\* "" when all of them complete
ExtractionError(response) ==
    LET doc == response.doc IN
    IF ~response.ok THEN "RequestException"                        \* 109-110
    ELSE IF doc.h1 = None THEN "AttributeError"                    \* 113
    ELSE IF doc.price_color = None THEN "AttributeError"           \* 115
    ELSE IF ~IsFloatText(PriceClean(doc.price_color[1]))
         THEN "ValueError"                                         \* 116
    ELSE IF doc.star_rating = None THEN "TypeError"                \* 121
    ELSE IF Len(doc.star_rating[1]) < 2 THEN "IndexError"          \* 121
    ELSE IF doc.availability = None THEN "AttributeError"          \* 124-126
    ELSE IF doc.breadcrumb = None THEN "AttributeError"            \* 130-132
    ELSE IF Len(doc.breadcrumb[1]) < 3 THEN "IndexError"           \* 132
    ELSE IF doc.product_gallery = None THEN "AttributeError"       \* 134-136
    ELSE IF doc.product_gallery[1] = None THEN "TypeError"         \* 136
    ELSE IF doc.product_gallery[1][1] = None THEN "KeyError"       \* 136
    ELSE ""

\* variant: the image reference is stored as read, without urljoin
BookDetails_RawImage(book_url, doc) ==
    [title |-> doc.h1[1],
     price |-> FloatOf(PriceClean(doc.price_color[1])),
     rating |-> rating_map(doc.star_rating[1][2]),
     avaliability |-> AvailabilityOf(Strip(doc.availability[1])),
     category |-> doc.breadcrumb[1][3],
     image_url |-> doc.product_gallery[1][1][1]]

\* the dictionary of lines 139-146
BookDetails(book_url, doc) ==
    [title |-> doc.h1[1],
     price |-> FloatOf(PriceClean(doc.price_color[1])),
     rating |-> rating_map(doc.star_rating[1][2]),
     avaliability |-> AvailabilityOf(Strip(doc.availability[1])),
     category |-> doc.breadcrumb[1][3],
     image_url |-> urljoin(book_url, doc.product_gallery[1][1][1])]

\* variant: the second except clause without AttributeError
CaughtExceptions_NoAttributeError ==
    {"RequestException", "KeyError", "ValueError"}

\* variant: without the first except clause
CaughtExceptions_NoRequestException ==
    {"AttributeError", "KeyError", "ValueError"}

\* variant: the second except clause without ValueError
CaughtExceptions_NoValueError ==
    {"RequestException", "AttributeError", "KeyError"}

\* the except clauses of lines 148 and 151
CaughtExceptions ==
    {"RequestException", "AttributeError", "KeyError", "ValueError"}

\* the outcome of one call: a record, None, or an exception that leaves it
get_book_details(book_url, response) ==
    LET e == ExtractionError(response) IN
    IF e = "" THEN [raised |-> "", value |-> Some(BookDetails(book_url, response.doc))]
    ELSE IF e \in CaughtExceptions THEN [raised |-> "", value |-> None]
    ELSE [raised |-> e, value |-> None]

(***************************************************************************)
(* Listing pages.                                                          *)
(***************************************************************************)
CardRefs == {[scheme |-> "", path |-> <<"a_1", "index.html">>]}
\* article.product_pod: its h3: None, or the a inside: None, or its href
Cards == {None} \cup {Some(Some(Some(r))) : r \in CardRefs}
PageRefs == {[scheme |-> "", path |-> <<"page-1.html">>],
             [scheme |-> "", path |-> <<"page-2.html">>]}
\* li.next: None, or the a inside: None, or its href: None
NextElements == {None, Some(None)} \cup {Some(Some(Some(r))) : r \in PageRefs}

SeqsUpTo(S, n) == UNION {[1..k -> S] : k \in 0..n}

ListingResponses ==
    {[ok |-> FALSE, books_on_page |-> <<>>, next_page_element |-> None]}
    \cup [ok : {TRUE}, books_on_page : SeqsUpTo(Cards, MaxCards),
          next_page_element : NextElements]

\* book.find("h3").find("a")["href"]: line 179
CardError(book) ==
    IF book = None THEN "AttributeError"
    ELSE IF book[1] = None THEN "TypeError"
    ELSE IF book[1][1] = None THEN "KeyError"
    ELSE ""

\* next_page_element.find("a")["href"]: lines 188-190
NextError(next_page_element) ==
    IF next_page_element[1] = None THEN "TypeError"
    ELSE IF next_page_element[1][1] = None THEN "KeyError"
    ELSE ""


(***************************************************************************)
(* RunScraper.execute: lines 43-94.                                        *)
(***************************************************************************)
output_file == "data/books.csv"

\* variant: the columns in the order of the dictionary of lines 139-146
schema_columns_Unordered ==
    <<"title", "price", "rating", "avaliability", "category", "image_url", "id">>

\* schema_columns: lines 69-72
schema_columns ==
    <<"id", "title", "price", "rating", "avaliability", "category", "image_url">>

\* variant: the id is the index itself
IdOf_Index(index) == index

\* df['id'] = df.index + 1: line 66; index is the 0-based position of the row
IdOf(index) == index + 1

\* pd.DataFrame(scraped_data), df['id'], df[schema_columns]: lines 65-73
Assemble(scraped_data) ==
    [columns |-> schema_columns,
     rows |-> [i \in 1..Len(scraped_data) |->
                  [c \in {schema_columns[k] : k \in 1..Len(schema_columns)} |->
                      IF c = "id" THEN IdOf(i - 1) ELSE scraped_data[i][c]]]]

\* variant: books_count taken from the columns of the frame
ExecuteResult_Columns(scraped_data) ==
    IF scraped_data = <<>>
    THEN [success |-> FALSE, message |-> <<"Nenhum dado foi coletado.">>,
          books_count |-> 0, file_path |-> None]
    ELSE [success |-> TRUE,
          message |-> <<"Scraping concluído com sucesso.", Len(schema_columns)>>,
          books_count |-> Len(schema_columns), file_path |-> Some(output_file)]

DigitChar(d) == CHOOSE c \in DigitChars : DigitVal(c) = d
RECURSIVE Digits(_)
Digits(n) == IF n < 10 THEN <<DigitChar(n)>>
             ELSE Digits(n \div 10) \o <<DigitChar(n % 10)>>

\* the text to_csv writes for an int
IntText(n) == IF n < 0 THEN <<"-">> \o Digits(0 - n) ELSE Digits(n)

\* the text to_csv writes for a float, given in hundredths: 5.5, 5.0, 5.05
FloatText(h) ==
    LET mag == IF h < 0 THEN 0 - h ELSE h
        fr == mag % 100
    IN (IF h < 0 THEN <<"-">> ELSE <<>>) \o Digits(mag \div 100) \o <<".">>
       \o (IF fr % 10 = 0 THEN <<DigitChar(fr \div 10)>>
           ELSE <<DigitChar(fr \div 10), DigitChar(fr % 10)>>)

\* the characters of a str; a str other than those listed is one token
StrText(str) ==
    CASE str = "" -> <<>>
      [] str = "1984" -> <<"1", "9", "8", "4">>
      [] OTHER -> <<str>>

\* the text of a URL
UrlText(url) == <<url.scheme, "://">> \o url.path

\* the cell to_csv writes for the column c of a row of the frame
CellText(c, value) ==
    CASE c \in {"id", "rating", "avaliability"} -> IntText(value)
      [] c = "price" -> FloatText(value)
      [] c = "image_url" -> UrlText(value)
      [] OTHER -> StrText(value)

\* df.to_csv(output_file, index=False): the header line and one line of
\* cells for each row
to_csv(df) ==
    [state |-> "ok",
     header |-> {df.columns[k] : k \in 1..Len(df.columns)},
     rows |-> [i \in 1..Len(df.rows) |->
                 [c \in DOMAIN df.rows[i] |-> CellText(c, df.rows[i][c])]]]

\* the text of books.csv after execute: as SavedFile
SavedText(scraped_data, file) ==
    IF scraped_data = <<>> THEN file ELSE to_csv(Assemble(scraped_data))

\* variant: the frame is written whether or not there are records
SavedFile_Always(scraped_data, file) == Some(Assemble(scraped_data))

\* books.csv after execute: untouched by the return of lines 49-57, else
\* replaced by the frame (line 76)
SavedFile(scraped_data, file) ==
    IF scraped_data = <<>> THEN file ELSE Some(Assemble(scraped_data))

\* the dictionary execute returns: lines 51-57 and 84-90
ExecuteResult(scraped_data) ==
    IF scraped_data = <<>>
    THEN [success |-> FALSE, message |-> <<"Nenhum dado foi coletado.">>,
          books_count |-> 0, file_path |-> None]
    ELSE [success |-> TRUE,
          message |-> <<"Scraping concluído com sucesso.", Len(scraped_data)>>,
          books_count |-> Len(scraped_data), file_path |-> Some(output_file)]

(***************************************************************************)
(* The state of one run.                                                   *)
(***************************************************************************)
VARIABLES
    pc,                 \* "idle", "page", "items", "returned", "done", "raised"
    current_url,        \* None or the URL of the listing page to fetch
    page_num,
    books_on_page,      \* the cards of the listing page being processed
    idx,                \* position of the for loop of line 178 in books_on_page
    next_page_element,  \* the li.next node of the listing page being processed
    all_books_data,     \* the accumulator
    result,             \* None or what execute returned
    exc,                \* the exception that left execute, "" if none
    csv_file,           \* None or the dataset written to books.csv
    attempts,           \* history: page, position and error of each detail URL
                        \* handed to _get_book_details
    origins,            \* history: <<page_num, idx>> of each accumulated record
    last,               \* history: the latest detail URL, its response and outcome
    fetches,            \* history: the URLs given to requests.get, in order
    walk_end,           \* history: why the while loop ended, "" while it runs
    books_csv,          \* data/books.csv as the repository finds it
    api,                \* the latest request to the API and its answer
    runs,               \* the executes of overlapping requests, one record each
    users,              \* the users table, the signing key and the tokens issued
    metrics             \* the SystemMetricsCollector, its tasks and its caller

vars == <<pc, current_url, page_num, books_on_page, idx, next_page_element,
          all_books_data, result, exc, csv_file,
          attempts, origins, last, fetches, walk_end, books_csv, api, runs, users, metrics>>

attempted == Len(attempts)

NoItem == [url |-> BASE_URL, response |-> [ok |-> FALSE, doc |-> GoodDocument],
           raised |-> "", value |-> None, page |-> 0, pos |-> 0]

NoFile == [state |-> "missing", header |-> {}, rows |-> <<>>]
NoRequest == [route |-> "", status |-> 0]

\* the requests to POST /v1/scraper/run that may overlap, each served by a
\* RunScraper of its own
RunIds == {1, 2}
NoRun == [pc |-> "idle", all_books_data |-> <<>>, extracted |-> <<>>,
          attempted |-> 0, pos |-> 0, opened |-> 0, result |-> None, exc |-> ""]
NoRuns == [r \in RunIds |-> NoRun]

\* the users table with no row, JWT_SECRET_KEY set, no token issued
Usernames == {"admin", "bob"}
NoUsers == [table |-> [u \in Usernames |-> None], key_set |-> TRUE, issued |-> <<>>]

\* _system_metrics_collector = None, no task, nobody inside start or stop
NoMetrics == [collector |-> None, tasks |-> <<>>, caller |-> "idle",
              quiet |-> FALSE, late |-> 0, calls |-> 0]

Init ==
    /\ pc = "idle"
    /\ books_csv = NoFile
    /\ api = NoRequest
    /\ runs = NoRuns
    /\ users = NoUsers
    /\ metrics = NoMetrics
    /\ current_url = None
    /\ page_num = 0
    /\ books_on_page = <<>>
    /\ idx = 0
    /\ next_page_element = None
    /\ all_books_data = <<>>
    /\ result = None
    /\ exc = ""
    /\ csv_file = None
    /\ attempts = <<>>
    /\ origins = <<>>
    /\ last = NoItem
    /\ fetches = <<>>
    /\ walk_end = ""

\* while current_url: ... return all_books_data (lines 169, 204)
AtLoopTop(url) == IF url = None THEN "returned" ELSE "page"

\* any exception leaving _scrape_all_books is re-raised by execute: 92-94
Raise(e) ==
    /\ pc' = "raised"
    /\ exc' = e
    /\ UNCHANGED <<current_url, page_num, books_on_page, idx, next_page_element,
                   all_books_data, result, csv_file, origins, walk_end>>

\* execute starts _scrape_all_books: lines 43-47, 165-167
StartRun ==
    /\ pc = "idle"
    /\ pc' = "page"
    /\ all_books_data' = <<>>
    /\ current_url' = Some(urljoin(BASE_URL, [scheme |-> "", path |-> <<"page-1.html">>]))
    /\ page_num' = 1
    /\ UNCHANGED <<books_on_page, idx, next_page_element, result, exc, csv_file,
                   attempts, origins, last, fetches, walk_end, books_csv, runs, users, metrics>>

\* execute called directly, outside the API
Start == StartRun /\ UNCHANGED api

\* variant: the failed listing page is tried again
ListingErrorUrl_Retry(url) == url

\* current_url = None of line 202
ListingErrorUrl(url) == None

\* one listing page is fetched and parsed: lines 169-177, 198-202
FetchListing ==
    /\ pc = "page"
    /\ UNCHANGED <<books_csv, api, runs, users, metrics>>
    /\ Len(SelectSeq(fetches, LAMBDA f : f.kind = "listing")) < MaxPages
    /\ \E response \in ListingResponses :
        /\ response.ok => Fetchable(current_url[1])
        /\ attempted + Len(response.books_on_page) <= MaxItems
        /\ fetches' = Append(fetches,
               [kind |-> "listing", url |-> current_url[1], ok |-> response.ok])
        /\ IF response.ok
           THEN /\ books_on_page' = response.books_on_page
                /\ next_page_element' = response.next_page_element
                /\ idx' = 1
                /\ pc' = "items"
                /\ UNCHANGED <<current_url, walk_end>>
           ELSE /\ current_url' = ListingErrorUrl(current_url)
                /\ pc' = AtLoopTop(current_url')
                /\ walk_end' = IF current_url' = None THEN "listing_error" ELSE ""
                /\ UNCHANGED <<books_on_page, next_page_element, idx>>
    /\ UNCHANGED <<page_num, all_books_data, result, exc, csv_file,
                   attempts, origins, last>>

\* variant: every other card is left out
NextIdx_Skip(i) == i + 2

\* for book in books_on_page: the card after the one at position i
NextIdx(i) == i + 1

\* variant: a record equal to one already there is not added again
Accumulate_Dedup(data, book_details) ==
    IF \E i \in 1..Len(data) : data[i] = book_details THEN data
    ELSE Append(data, book_details)

\* variant: the new record goes to the front
Accumulate_Front(data, book_details) == <<book_details>> \o data

\* all_books_data.append(book_details): line 184
Accumulate(data, book_details) == Append(data, book_details)

\* one iteration of the for loop: lines 178-184 with _get_book_details
ProcessBook ==
    /\ pc = "items"
    /\ UNCHANGED <<books_csv, api, runs, users, metrics>>
    /\ idx <= Len(books_on_page)
    /\ LET book == books_on_page[idx] IN
       IF CardError(book) # ""
       THEN /\ Raise(CardError(book))
            /\ UNCHANGED <<attempts, last, fetches>>
       ELSE LET book_full_url == urljoin(BASE_URL, book[1][1][1]) IN
            \E response \in DetailResponses :
              /\ response.ok => Fetchable(book_full_url)
              /\ LET out == get_book_details(book_full_url, response) IN
                 /\ attempts' = Append(attempts,
                        [page |-> page_num, pos |-> idx,
                         err |-> ExtractionError(response)])
                 /\ fetches' = Append(fetches,
                        [kind |-> "detail", url |-> book_full_url, ok |-> response.ok])
                 /\ last' = [url |-> book_full_url, response |-> response,
                             raised |-> out.raised, value |-> out.value,
                             page |-> page_num, pos |-> idx]
                 /\ IF out.raised # ""
                    THEN Raise(out.raised)
                    ELSE /\ IF out.value # None
                            THEN /\ all_books_data' = Accumulate(all_books_data, out.value[1])
                                 /\ origins' = Accumulate(origins, <<page_num, idx>>)
                            ELSE UNCHANGED <<all_books_data, origins>>
                         /\ idx' = NextIdx(idx)
                         /\ UNCHANGED <<pc, current_url, page_num, books_on_page,
                                        next_page_element, result, exc, csv_file,
                                        walk_end>>

\* soup, books_on_page and the loop variable are not read again once the
\* next-page link has been taken from them; the next iteration reassigns them
DropPage ==
    /\ books_on_page' = <<>>
    /\ idx' = 0
    /\ next_page_element' = None

\* after the for loop, the next-page link: lines 186-196
FollowNext ==
    /\ pc = "items"
    /\ UNCHANGED <<books_csv, api, runs, users, metrics>>
    /\ idx > Len(books_on_page)
    /\ IF next_page_element = None
       THEN /\ current_url' = None
            /\ pc' = AtLoopTop(current_url')
            /\ walk_end' = "no_next"
            /\ DropPage
            /\ UNCHANGED <<page_num, exc>>
       ELSE IF NextError(next_page_element) # ""
       THEN /\ pc' = "raised"
            /\ exc' = NextError(next_page_element)
            /\ UNCHANGED <<current_url, page_num, walk_end,
                           books_on_page, idx, next_page_element>>
       ELSE /\ current_url' = Some(urljoin(BASE_URL, next_page_element[1][1][1]))
            /\ page_num' = page_num + 1
            /\ pc' = AtLoopTop(current_url')
            /\ DropPage
            /\ UNCHANGED <<walk_end, exc>>
    /\ UNCHANGED <<all_books_data, result, csv_file, attempts, origins, last, fetches>>

\* the rest of execute once _scrape_all_books has returned: lines 49-90;
\* os.makedirs and to_csv are taken to succeed
Finish ==
    /\ pc = "returned"
    /\ UNCHANGED <<api, runs, users, metrics>>
    /\ books_csv' = SavedText(all_books_data, books_csv)
    /\ pc' = "done"
    /\ result' = Some(ExecuteResult(all_books_data))
    /\ csv_file' = SavedFile(all_books_data, csv_file)
    /\ UNCHANGED <<current_url, page_num, books_on_page, idx, next_page_element,
                   all_books_data, exc, attempts, origins, last, fetches, walk_end>>

Next == Start \/ FetchListing \/ ProcessBook \/ FollowNext \/ Finish

Spec == Init /\ [][Next]_vars

\* one more turn of the while loop (lines 169-202) once MaxPages listing
\* pages are on record: the page is fetched, has no card, and its next-page
\* node is followed; page_num and the history variables no longer count
WalkBeyond ==
    /\ pc = "page"
    /\ Len(SelectSeq(fetches, LAMBDA f : f.kind = "listing")) >= MaxPages
    /\ \E response \in ListingResponses :
        /\ response.ok => Fetchable(current_url[1])
        /\ response.books_on_page = <<>>
        /\ IF ~response.ok
           THEN /\ current_url' = ListingErrorUrl(current_url)
                /\ pc' = AtLoopTop(current_url')
                /\ walk_end' = IF current_url' = None THEN "listing_error" ELSE ""
                /\ UNCHANGED exc
           ELSE IF response.next_page_element = None
           THEN /\ current_url' = None
                /\ pc' = AtLoopTop(current_url')
                /\ walk_end' = "no_next"
                /\ UNCHANGED exc
           ELSE IF NextError(response.next_page_element) # ""
           THEN /\ pc' = "raised"
                /\ exc' = NextError(response.next_page_element)
                /\ UNCHANGED <<current_url, walk_end>>
           ELSE /\ current_url' =
                     Some(urljoin(BASE_URL, response.next_page_element[1][1][1]))
                /\ pc' = AtLoopTop(current_url')
                /\ UNCHANGED <<walk_end, exc>>
    /\ UNCHANGED <<page_num, books_on_page, idx, next_page_element,
                   all_books_data, result, csv_file, attempts, origins, last,
                   fetches, books_csv, api, runs, users, metrics>>

NextLive == Start \/ FetchListing \/ ProcessBook \/ FollowNext \/ Finish
            \/ WalkBeyond

\* the run is one thread of control: while a step is possible, one is taken
SpecLive == Init /\ [][NextLive]_vars /\ WF_vars(NextLive)


(***************************************************************************)
(* _get_book_details as a function of the detail URL and the response: one *)
(* call on every response of the full set, with the append of line 184 on  *)
(* an empty accumulator.                                                   *)
(***************************************************************************)
ExtractUrls == {urljoin(BASE_URL, [scheme |-> "", path |-> <<"a_1", "index.html">>]),
                urljoin(BASE_URL, [scheme |-> "", path |-> <<"..", "b.html">>]),
                urljoin(BASE_URL, [scheme |-> "mailto", path |-> <<"shop">>])}

AllResponses ==
    {[ok |-> FALSE, doc |-> GoodDocument]} \cup [ok : {TRUE}, doc : Documents]

InitExtract ==
    /\ pc = "extract"
    /\ books_csv = NoFile
    /\ api = NoRequest
    /\ runs = NoRuns
    /\ users = NoUsers
    /\ metrics = NoMetrics
    /\ current_url = None
    /\ page_num = 1
    /\ books_on_page = <<>>
    /\ idx = 1
    /\ next_page_element = None
    /\ all_books_data = <<>>
    /\ result = None
    /\ exc = ""
    /\ csv_file = None
    /\ attempts = <<>>
    /\ origins = <<>>
    /\ \E u \in ExtractUrls, r \in AllResponses :
          /\ r.ok => Fetchable(u)
          /\ last = [url |-> u, response |-> r, raised |-> "", value |-> None,
                  page |-> 0, pos |-> 0]
    /\ fetches = <<>>
    /\ walk_end = ""

Extract ==
    /\ pc = "extract"
    /\ UNCHANGED <<books_csv, api, runs, users, metrics>>
    /\ LET out == get_book_details(last.url, last.response) IN
       /\ last' = [last EXCEPT !.raised = out.raised, !.value = out.value,
                               !.page = page_num, !.pos = idx]
       /\ attempts' = Append(attempts, [page |-> page_num, pos |-> idx,
                                        err |-> ExtractionError(last.response)])
       /\ exc' = out.raised
       /\ pc' = IF out.raised # "" THEN "raised" ELSE "extracted"
       /\ IF out.raised = "" /\ out.value # None
          THEN /\ all_books_data' = Accumulate(all_books_data, out.value[1])
               /\ origins' = Accumulate(origins, <<page_num, idx>>)
          ELSE UNCHANGED <<all_books_data, origins>>
    /\ UNCHANGED <<current_url, page_num, books_on_page, idx, next_page_element,
                   result, csv_file, fetches, walk_end>>

NextExtract == Extract

SpecExtract == InitExtract /\ [][NextExtract]_vars

(***************************************************************************)
(* data/books.csv as text, and the two ways the repository reads it.       *)
(***************************************************************************)
BookColumns == {"id", "title", "price", "rating", "avaliability", "category",
                "image_url"}
CsvHeaders == {BookColumns, BookColumns \ {"price"}, BookColumns \ {"title"}}

GoodRow == [id |-> <<"1">>, title |-> <<"A">>, price |-> <<"5", ".", "5">>,
            rating |-> <<"3">>, avaliability |-> <<"7">>,
            category |-> <<"P">>, image_url |-> <<"u">>]
SampleRows ==
    {GoodRow,
     [GoodRow EXCEPT !.id = <<"2">>, !.title = <<"B">>],
     [GoodRow EXCEPT !.id = <<"x">>],
     [GoodRow EXCEPT !.price = <<"x">>],
     [GoodRow EXCEPT !.price = <<>>],
     [GoodRow EXCEPT !.rating = <<"3", ".", "5">>],
     [GoodRow EXCEPT !.avaliability = <<>>],
     [GoodRow EXCEPT !.title = <<>>],
     [GoodRow EXCEPT !.title = <<"1", "9">>]}

Restrict(row, header) == [c \in header |-> row[c]]

\* the file: absent, not readable, without a single line, or a header line
\* and rows of cells
DiskFiles ==
    {[state |-> st, header |-> {}, rows |-> <<>>] :
        st \in {"missing", "denied", "unreadable", "empty"}}
    \cup UNION {{[state |-> "ok", header |-> h, rows |-> rs] :
                    rs \in SeqsUpTo({Restrict(r, h) : r \in SampleRows}, MaxRows)} :
                 h \in CsvHeaders}

\* the values a cell has once read: str, int, float (in hundredths) or NaN
StrV(text) == [t |-> "str", s |-> text]
IntV(n) == [t |-> "int", n |-> n]
FloatV(h) == [t |-> "float", h |-> h]
NaN == [t |-> "nan"]

\* the texts int() accepts once stripped: [sign] digits
IsIntText(text) ==
    /\ Unsigned(text) # <<>>
    /\ \A i \in 1..Len(Unsigned(text)) : Unsigned(text)[i] \in DigitChars
IntOf(text) ==
    IF Head(text) = "-" THEN 0 - ToNat(Unsigned(text)) ELSE ToNat(Unsigned(text))
Trunc(h) == IF h >= 0 THEN h \div 100 ELSE 0 - ((0 - h) \div 100)

\* int(value)
PyInt(v) ==
    CASE v.t = "int" -> [err |-> "", val |-> v.n]
      [] v.t = "float" -> [err |-> "", val |-> Trunc(v.h)]
      [] v.t = "nan" -> [err |-> "ValueError", val |-> 0]
      [] v.t = "str" -> IF IsIntText(Strip(v.s))
                        THEN [err |-> "", val |-> IntOf(Strip(v.s))]
                        ELSE [err |-> "ValueError", val |-> 0]

\* float(value)
PyFloat(v) ==
    CASE v.t = "int" -> [err |-> "", val |-> FloatV(100 * v.n)]
      [] v.t = "float" -> [err |-> "", val |-> v]
      [] v.t = "nan" -> [err |-> "", val |-> NaN]
      [] v.t = "str" -> IF IsFloatText(Strip(v.s))
                        THEN [err |-> "", val |-> FloatV(FloatOf(Strip(v.s)))]
                        ELSE [err |-> "ValueError", val |-> NaN]

\* the first exception of Book(id=int(row["id"]), title=row["title"], ...),
\* "" if there is none
RowError(row) ==
    IF "id" \notin DOMAIN row THEN "KeyError"
    ELSE IF PyInt(row.id).err # "" THEN PyInt(row.id).err
    ELSE IF "title" \notin DOMAIN row THEN "KeyError"
    ELSE IF "price" \notin DOMAIN row THEN "KeyError"
    ELSE IF PyFloat(row.price).err # "" THEN PyFloat(row.price).err
    ELSE IF "rating" \notin DOMAIN row THEN "KeyError"
    ELSE IF PyInt(row.rating).err # "" THEN PyInt(row.rating).err
    ELSE IF "avaliability" \notin DOMAIN row THEN "KeyError"
    ELSE IF PyInt(row.avaliability).err # "" THEN PyInt(row.avaliability).err
    ELSE IF "category" \notin DOMAIN row THEN "KeyError"
    ELSE IF "image_url" \notin DOMAIN row THEN "KeyError"
    ELSE ""

Book(row) ==
    [id |-> PyInt(row.id).val, title |-> row.title,
     price |-> PyFloat(row.price).val, rating |-> PyInt(row.rating).val,
     avaliability |-> PyInt(row.avaliability).val,
     category |-> row.category, image_url |-> row.image_url]

\* the loop over the rows: a row whose conversion raises ValueError or
\* KeyError is logged and left out
ConvertRows(rows) ==
    LET kept == SelectSeq(rows, LAMBDA r : RowError(r) = "")
    IN [i \in 1..Len(kept) |-> Book(kept[i])]

\* open(file_path) and pd.read_csv(file_path) on a file that is not there or
\* cannot be read
OpenError(file) ==
    CASE file.state = "missing" -> "FileNotFoundError"
      [] file.state = "denied" -> "PermissionError"
      [] file.state = "unreadable" -> "OSError"
      [] OTHER -> ""

\* a line of zero bytes: what a write beyond the end of the file leaves
\* before it
HoleRow == [c \in BookColumns |-> <<"\\0">>]
HasHole(file) ==
    /\ file.state = "ok"
    /\ \/ file.header = {}
       \/ \E i \in 1..Len(file.rows) : file.rows[i] = HoleRow

\* what open and the csv module make of the bytes on disk: a csv module that
\* rejects NUL raises on a line of zero bytes, one that accepts it reads the
\* line as a line
Readable(file, nul_ok) ==
    IF HasHole(file) /\ ~nul_ok
    THEN [state |-> "unreadable", header |-> {}, rows |-> <<>>]
    ELSE file

\* the except clauses around the whole read
BookRepositoryException(e) ==
    [raised |-> "BookRepositoryException",
     code |-> CASE e = "FileNotFoundError" -> "FILE_NOT_FOUND"
                [] e = "PermissionError" -> "PERMISSION_DENIED"
                [] OTHER -> "UNEXPECTED_ERROR",
     books |-> <<>>]

Returned(books) == [raised |-> "", code |-> "", books |-> books]

\* csv.DictReader: every cell is a str, '' when empty
DictReader(file) ==
    [i \in 1..Len(file.rows) |-> [c \in file.header |-> StrV(file.rows[i][c])]]

get_all_books(file) ==
    IF OpenError(file) # "" THEN BookRepositoryException(OpenError(file))
    ELSE Returned(ConvertRows(DictReader(file)))

\* the cells pd.read_csv takes for missing values (some of its na_values)
NaTokens == {"NA", "N/A", "NULL", "NaN", "nan", "null"}
IsNA(text) == text = <<>> \/ (Len(text) = 1 /\ text[1] \in NaTokens)

\* pd.read_csv: the type of a column is inferred from all its cells, a
\* missing value is NaN
ColumnType(file, c) ==
    LET cells == {file.rows[i][c] : i \in 1..Len(file.rows)}
        filled == {x \in cells : ~IsNA(x)}
    IN IF cells = {} THEN "object"
       ELSE IF \A x \in filled : IsIntText(x)
            THEN IF filled # cells THEN "float64" ELSE "int64"
       ELSE IF \A x \in filled : IsFloatText(x) THEN "float64"
       ELSE "object"

CellValue(dtype, text) ==
    IF IsNA(text) THEN NaN
    ELSE CASE dtype = "int64" -> IntV(IntOf(text))
           [] dtype = "float64" -> FloatV(FloatOf(text))
           [] OTHER -> StrV(text)

read_csv(file) ==
    LET dtypes == [c \in file.header |-> ColumnType(file, c)] IN
    [dtypes |-> dtypes,
     rows |-> [i \in 1..Len(file.rows) |->
                 [c \in file.header |-> CellValue(dtypes[c], file.rows[i][c])]]]

LowerChar(c) ==
    CASE c = "A" -> "a" [] c = "B" -> "b" [] c = "P" -> "p" [] OTHER -> c
Lower(text) == [i \in 1..Len(text) |-> LowerChar(text[i])]
Contains(text, pat) ==
    \E i \in 1..(Len(text) - Len(pat) + 1) : SubSeq(text, i, i + Len(pat) - 1) = pat

\* df[df[c].str.contains(pat, case=False, na=False)]
str_contains(df, c, pat) ==
    IF c \notin DOMAIN df.dtypes THEN [raised |-> "KeyError", df |-> df]
    ELSE IF df.dtypes[c] # "object" THEN [raised |-> "AttributeError", df |-> df]
    ELSE [raised |-> "",
          df |-> [df EXCEPT !.rows =
                    SelectSeq(df.rows, LAMBDA r :
                        r[c].t = "str" /\ Contains(Lower(r[c].s), Lower(pat)))]]

\* the texts given as title and category of a search
Queries == {<<>>, <<"a">>, <<"z">>}

search_books(file, title, category) ==
    IF OpenError(file) # "" THEN BookRepositoryException(OpenError(file))
    ELSE IF file.state = "empty" THEN BookRepositoryException("EmptyDataError")
    ELSE LET df == read_csv(file)
             by_title == IF title # <<>> THEN str_contains(df, "title", title)
                         ELSE [raised |-> "", df |-> df]
             by_category == IF by_title.raised = "" /\ category # <<>>
                            THEN str_contains(by_title.df, "category", category)
                            ELSE by_title
         IN IF by_category.raised # ""
            THEN BookRepositoryException(by_category.raised)
            ELSE Returned(ConvertRows(by_category.df.rows))

(***************************************************************************)
(* The use cases and the routes GET /v1/books and GET /v1/books/search.    *)
(***************************************************************************)
\* variant: an empty list is handed on as it is
RaiseIfEmpty_Lenient(out) == out

\* if not books: raise BookNotFoundError(..., "NO_BOOKS_FOUND")
RaiseIfEmpty(out) ==
    IF out.raised = "" /\ out.books = <<>>
    THEN [raised |-> "BookNotFoundError", code |-> "NO_BOOKS_FOUND", books |-> <<>>]
    ELSE out

GetAllBooks_execute(file) == RaiseIfEmpty(get_all_books(file))

SearchBooks_execute(file, title, category) ==
    RaiseIfEmpty(search_books(file, title, category))

\* response_model=List[BookSchema]: title, category and image_url are str,
\* and the price can be written as JSON
BookSchema(book) ==
    /\ book.title.t = "str"
    /\ book.category.t = "str"
    /\ book.image_url.t = "str"
    /\ book.price.t # "nan"

\* the except clauses of the two routes, and the response model
HttpAnswer(out) ==
    IF out.raised = "BookNotFoundError" THEN [status |-> 404, body |-> <<>>]
    ELSE IF out.raised # "" THEN [status |-> 500, body |-> <<>>]
    ELSE IF \E i \in 1..Len(out.books) : ~BookSchema(out.books[i])
    THEN [status |-> 500, body |-> <<>>]
    ELSE [status |-> 200, body |-> out.books]

RunVars == <<pc, current_url, page_num, books_on_page, idx, next_page_element,
             all_books_data, result, exc, csv_file,
             attempts, origins, last, fetches, walk_end>>

InitBooks ==
    /\ pc = "idle"
    /\ current_url = None
    /\ page_num = 0
    /\ books_on_page = <<>>
    /\ idx = 0
    /\ next_page_element = None
    /\ all_books_data = <<>>
    /\ result = None
    /\ exc = ""
    /\ csv_file = None
    /\ attempts = <<>>
    /\ origins = <<>>
    /\ last = NoItem
    /\ fetches = <<>>
    /\ walk_end = ""
    /\ books_csv \in DiskFiles
    /\ api = NoRequest
    /\ runs = NoRuns
    /\ users = NoUsers
    /\ metrics = NoMetrics

\* GET /v1/books
GetBooksRoute ==
    /\ \E nul_ok \in (IF HasHole(books_csv) THEN BOOLEAN ELSE {TRUE}) :
         LET file == Readable(books_csv, nul_ok)
             repo == get_all_books(file)
             out == GetAllBooks_execute(file)
             answer == HttpAnswer(out)
         IN api' = [route |-> "/v1/books", title |-> <<>>, category |-> <<>>,
                    file |-> file, repo |-> repo, use_case |-> out,
                    status |-> answer.status, body |-> answer.body]
    /\ UNCHANGED books_csv
    /\ UNCHANGED <<RunVars, runs, users, metrics>>

\* GET /v1/books/search?title=...&category=...
SearchBooksRoute ==
    /\ \E title \in Queries, category \in Queries :
         LET repo == search_books(books_csv, title, category)
             out == SearchBooks_execute(books_csv, title, category)
             answer == HttpAnswer(out)
         IN api' = [route |-> "/v1/books/search", title |-> title,
                    category |-> category, file |-> books_csv,
                    repo |-> repo, use_case |-> out,
                    status |-> answer.status, body |-> answer.body]
    /\ UNCHANGED books_csv
    /\ UNCHANGED <<RunVars, runs, users, metrics>>

NextBooks == GetBooksRoute \/ SearchBooksRoute

SpecBooks == InitBooks /\ [][NextBooks]_vars

(***************************************************************************)
(* GET /v1/books/{id}, and reading back what a run has written.            *)
(***************************************************************************)
\* df[df['id'] == book_id], then Book(**book_data.iloc[0].to_dict()): the
\* values are taken as read_csv gives them; None when no row has the id
get_book_by_id(file, book_id) ==
    IF OpenError(file) # ""
    THEN [raised |-> "BookRepositoryException",
          code |-> IF OpenError(file) = "FileNotFoundError" THEN "FILE_NOT_FOUND"
                   ELSE "UNEXPECTED_ERROR",
          book |-> None]
    ELSE IF file.state = "empty" \/ "id" \notin file.header
    THEN [raised |-> "BookRepositoryException", code |-> "UNEXPECTED_ERROR",
          book |-> None]
    ELSE LET df == read_csv(file)
             book_data == SelectSeq(df.rows, LAMBDA r :
                             \/ r.id.t = "int" /\ r.id.n = book_id
                             \/ r.id.t = "float" /\ r.id.h = 100 * book_id)
         IN IF book_data = <<>>
            THEN [raised |-> "", code |-> "", book |-> None]
            ELSE IF file.header # BookColumns
            THEN [raised |-> "BookRepositoryException",
                  code |-> "UNEXPECTED_ERROR", book |-> None]
            ELSE [raised |-> "", code |-> "", book |-> Some(book_data[1])]

\* if not book: raise BookNotFoundError(..., "BOOK_NOT_FOUND")
GetBookById_execute(file, book_id) ==
    LET out == get_book_by_id(file, book_id) IN
    IF out.raised = "" /\ out.book = None
    THEN [raised |-> "BookNotFoundError", code |-> "BOOK_NOT_FOUND", book |-> None]
    ELSE out

\* response_model=BookSchema for values as read_csv gives them
BookSchemaRaw(book) ==
    /\ book.id.t = "int"
    /\ book.title.t = "str"
    /\ book.price.t \in {"int", "float"}
    /\ book.rating.t = "int"
    /\ book.avaliability.t = "int"
    /\ book.category.t = "str"
    /\ book.image_url.t = "str"

\* the ids asked for
BookIds == 0..(MaxRows + 1)

\* GET /v1/books/{id}
GetBookByIdRoute ==
    /\ \E id \in BookIds :
         LET repo == get_book_by_id(books_csv, id)
             out == GetBookById_execute(books_csv, id)
         IN api' = [route |-> "/v1/books/{id}", id |-> id, file |-> books_csv,
                    repo |-> repo, use_case |-> out,
                    status |-> IF out.raised = "BookNotFoundError" THEN 404
                               ELSE IF out.raised # "" THEN 500
                               ELSE IF ~BookSchemaRaw(out.book[1]) THEN 500
                               ELSE 200,
                    body |-> IF out.raised = "" /\ BookSchemaRaw(out.book[1])
                             THEN out.book ELSE None]
    /\ UNCHANGED books_csv
    /\ UNCHANGED <<RunVars, runs, users, metrics>>

\* records _get_book_details can hand to the accumulator
GoodRecord ==
    BookDetails(urljoin(BASE_URL, [scheme |-> "", path |-> <<"a_1", "index.html">>]),
                GoodDocument)
RoundTripRecords ==
    {GoodRecord,
     [GoodRecord EXCEPT !.title = "NA"],
     [GoodRecord EXCEPT !.title = "1984"],
     [GoodRecord EXCEPT !.title = ""],
     [GoodRecord EXCEPT !.price = 500, !.rating = 0],
     [GoodRecord EXCEPT !.price = 505, !.avaliability = 12]}

\* the walk has returned with some accumulator; nothing has been written yet
InitRoundTrip ==
    /\ pc = "returned"
    /\ current_url = None
    /\ page_num = 1
    /\ books_on_page = <<>>
    /\ idx = 0
    /\ next_page_element = None
    /\ all_books_data \in SeqsUpTo(RoundTripRecords, MaxRows)
    /\ result = None
    /\ exc = ""
    /\ csv_file = None
    /\ attempts = <<>>
    /\ origins = <<>>
    /\ last = NoItem
    /\ fetches = <<>>
    /\ walk_end = "no_next"
    /\ books_csv = NoFile
    /\ api = NoRequest
    /\ runs = NoRuns
    /\ users = NoUsers
    /\ metrics = NoMetrics

NextRoundTrip == Finish \/ GetBooksRoute \/ GetBookByIdRoute

SpecRoundTrip == InitRoundTrip /\ [][NextRoundTrip]_vars

(***************************************************************************)
(* Overlapping requests to POST /v1/scraper/run.  Each request gets its    *)
(* own RunScraper (run_scraper_use_case) and runs execute in a thread of   *)
(* the pool; the threads share nothing but data/books.csv.  The walk over  *)
(* the listing pages is in Spec; here a run is the sequence of detail      *)
(* pages it handles, its return and its write of the file, step by step.   *)
(***************************************************************************)
\* variant: all_books_data is one list for every run
AccumulatorsOf_Shared(r) == RunIds

\* all_books_data = [] is a local of _scrape_all_books (line 165): the list a
\* run appends to is its own
AccumulatorsOf(r) == {r}

\* variant: the frame is saved whatever was collected
HasData_Always(scraped_data) == TRUE

\* if not scraped_data: return ... (lines 49-57)
HasData(scraped_data) == scraped_data # <<>>

\* the detail URL of a product card
RunBookUrl == urljoin(BASE_URL, [scheme |-> "", path |-> <<"a_1", "index.html">>])

\* open(output_file, 'w'): the file is there and has no bytes
EmptyFile == [state |-> "empty", header |-> {}, rows |-> <<>>]

\* one buffer of to_csv reaching the disk at the writer's own offset: line
\* pos of text (0 is the header) replaces what the file has there, the lines
\* of the file are taken to have one length
WriteLine(file, pos, text) ==
    LET old == IF file.state = "ok" THEN file
               ELSE [state |-> "ok", header |-> {}, rows |-> <<>>]
        len == IF Len(old.rows) > pos THEN Len(old.rows) ELSE pos
    IN IF pos = 0 THEN [old EXCEPT !.header = text.header]
       ELSE [old EXCEPT !.rows =
                [i \in 1..len |-> IF i = pos THEN text.rows[pos]
                                  ELSE IF i <= Len(old.rows) THEN old.rows[i]
                                  ELSE HoleRow]]

\* what books.csv holds once a run that collected scraped_data has closed
\* it with no other writer in between
CompleteFile(scraped_data) == to_csv(Assemble(scraped_data))

SingleRunVars == <<pc, current_url, page_num, books_on_page, idx,
                   next_page_element, all_books_data, result, exc, csv_file,
                   attempts, origins, last, fetches, walk_end>>

\* the route calls use_case.execute(): lines 43-47, 165-167
RunStart(r) ==
    /\ runs[r].pc = "idle"
    /\ runs' = [runs EXCEPT ![r].pc = "walk", ![r].all_books_data = <<>>]
    /\ UNCHANGED <<SingleRunVars, books_csv, api, users, metrics>>

\* one turn of the for loop of line 178: _get_book_details, then the append
\* of line 184, or the exception leaves execute
RunItem(r) ==
    /\ runs[r].pc = "walk"
    /\ runs[r].attempted < MaxRunItems
    /\ \E response \in DetailResponses :
         LET out == get_book_details(RunBookUrl, response)
             mine == [runs[r] EXCEPT
                        !.attempted = @ + 1,
                        !.pc = IF out.raised # "" THEN "raised" ELSE @,
                        !.exc = out.raised,
                        !.extracted = IF out.value # None
                                      THEN Append(@, out.value[1]) ELSE @]
             after == [runs EXCEPT ![r] = mine]
         IN runs' = [q \in RunIds |->
                       IF out.value # None /\ q \in AccumulatorsOf(r)
                       THEN [after[q] EXCEPT
                               !.all_books_data = Append(@, out.value[1])]
                       ELSE after[q]]
    /\ UNCHANGED <<SingleRunVars, books_csv, api, users, metrics>>

\* the while loop ends and _scrape_all_books returns: line 204
RunReturn(r) ==
    /\ runs[r].pc = "walk"
    /\ runs' = [runs EXCEPT ![r].pc = "returned"]
    /\ UNCHANGED <<SingleRunVars, books_csv, api, users, metrics>>

\* lines 49-57: nothing collected, the failure dict; else lines 65-76 up to
\* the open of to_csv, which truncates books.csv
RunSave(r) ==
    /\ runs[r].pc = "returned"
    /\ IF HasData(runs[r].all_books_data)
       THEN /\ books_csv' = EmptyFile
            /\ runs' = [runs EXCEPT ![r].pc = "writing", ![r].pos = 0,
                                    ![r].opened = @ + 1]
       ELSE /\ runs' = [runs EXCEPT
                          ![r].pc = "done",
                          ![r].result = Some(ExecuteResult(runs[r].all_books_data))]
            /\ UNCHANGED books_csv
    /\ UNCHANGED <<SingleRunVars, api, users, metrics>>

\* to_csv, line 76: the next line of the frame goes to the file
RunWrite(r) ==
    /\ runs[r].pc = "writing"
    /\ runs[r].pos <= Len(runs[r].all_books_data)
    /\ books_csv' = WriteLine(books_csv, runs[r].pos,
                              CompleteFile(runs[r].all_books_data))
    /\ runs' = [runs EXCEPT ![r].pos = @ + 1]
    /\ UNCHANGED <<SingleRunVars, api, users, metrics>>

\* to_csv returns, execute returns the success dict: lines 78-90
RunClose(r) ==
    /\ runs[r].pc = "writing"
    /\ runs[r].pos > Len(runs[r].all_books_data)
    /\ runs' = [runs EXCEPT
                  ![r].pc = "done",
                  ![r].result = Some(ExecuteResult(runs[r].all_books_data))]
    /\ UNCHANGED <<SingleRunVars, books_csv, api, users, metrics>>

NextRuns ==
    \/ \E r \in RunIds : RunStart(r)
    \/ \E r \in RunIds : RunItem(r)
    \/ \E r \in RunIds : RunReturn(r)
    \/ \E r \in RunIds : RunSave(r)
    \/ \E r \in RunIds : RunWrite(r)
    \/ \E r \in RunIds : RunClose(r)
    \/ GetBooksRoute

SpecRuns == Init /\ [][NextRuns]_vars

(***************************************************************************)
(* POST /v1/scraper/run behind require_auth.                               *)
(***************************************************************************)
\* a token: what it was signed with, whether its exp has passed, its sub
Tokens == [signed_with : {"JWT_SECRET_KEY", "another key", "not a JWT"},
           expired : BOOLEAN, sub : Opt({"admin"})]

\* the Authorization header of a request: absent, or a scheme and a token
Authorizations ==
    {None} \cup {Some([scheme |-> sch, token |-> tok]) :
                    sch \in {"Bearer", "Basic"}, tok \in Tokens}

\* what the installed libraries do where the code leaves it to them:
\* the status HTTPBearer answers without bearer credentials, and whether
\* the module jwt has an attribute JWTError
Builds == [bearer_status : {401, 403}, has_JWTError : BOOLEAN]

\* jwt.decode(token, secret_key, algorithms=["HS256"])
jwt_decode(token) ==
    IF token.signed_with = "not a JWT" THEN [raised |-> "DecodeError", payload |-> None]
    ELSE IF token.signed_with # "JWT_SECRET_KEY"
    THEN [raised |-> "InvalidSignatureError", payload |-> None]
    ELSE IF token.expired THEN [raised |-> "ExpiredSignatureError", payload |-> None]
    ELSE [raised |-> "", payload |-> Some([sub |-> token.sub])]

\* JWTService.verify_token: the payload, None, or the exception raised
\* while the clause "except jwt.JWTError" is evaluated
verify_token(token, build) ==
    LET decoded == jwt_decode(token) IN
    IF decoded.raised = ""
    THEN IF decoded.payload[1].sub = None THEN [raised |-> "", payload |-> None]
         ELSE decoded
    ELSE IF decoded.raised = "ExpiredSignatureError" \/ build.has_JWTError
    THEN [raised |-> "", payload |-> None]
    ELSE [raised |-> "AttributeError", payload |-> None]

\* security = HTTPBearer(): the token of a bearer header, else its refusal
HTTPBearer(authorization, build) ==
    IF authorization = None \/ authorization[1].scheme # "Bearer"
    THEN [status |-> build.bearer_status, credentials |-> None]
    ELSE [status |-> 0, credentials |-> Some(authorization[1].token)]

\* get_current_user: the user, or the HTTP status of the exception
get_current_user(authorization, build) ==
    LET bearer == HTTPBearer(authorization, build) IN
    IF bearer.status # 0 THEN [status |-> bearer.status, user |-> None]
    ELSE LET verified == verify_token(bearer.credentials[1], build) IN
         IF verified.raised # "" \/ verified.payload = None
         THEN [status |-> 401, user |-> None]
         ELSE [status |-> 0, user |-> verified.payload[1].sub]

require_auth(authorization, build) == get_current_user(authorization, build)

\* the request arrives: the dependency require_auth, then the call of
\* execute in the body of run_scraper
RunScraperRoute ==
    /\ pc = "idle"
    /\ \E authorization \in Authorizations, build \in Builds :
         LET current_user == require_auth(authorization, build) IN
         IF current_user.status # 0
         THEN /\ api' = [route |-> "/v1/scraper/run", authorization |-> authorization,
                         status |-> current_user.status, body |-> None]
              /\ UNCHANGED <<RunVars, runs, users, metrics>>
         ELSE /\ api' = [route |-> "/v1/scraper/run", authorization |-> authorization,
                         status |-> 0, body |-> None]
              /\ StartRun
    /\ UNCHANGED books_csv

\* return result, or HTTPException 500 for an exception of execute
RunScraperReturn ==
    /\ pc \in {"done", "raised"}
    /\ api.route = "/v1/scraper/run"
    /\ api.status = 0
    /\ api' = [api EXCEPT !.status = IF pc = "done" THEN 200 ELSE 500,
                          !.body = IF pc = "done" THEN result ELSE None]
    /\ UNCHANGED books_csv
    /\ UNCHANGED <<RunVars, runs, users, metrics>>

NextAuth == RunScraperRoute \/ FetchListing \/ ProcessBook \/ FollowNext
            \/ Finish \/ RunScraperReturn

SpecAuth == Init /\ [][NextAuth]_vars


(***************************************************************************)
(* POST /v1/auth/login: LoginUser.execute and the route around it.         *)
(***************************************************************************)
\* passwords as texts; "\\0" is a NUL character in the password
StoredPasswords == {<<"s3cret">>, <<"other">>}
Passwords == StoredPasswords \cup {<<"s3cret", "\\0">>}

\* a row of the users table; hashed_password is named by the password the
\* bcrypt hash was made of (RegisterUser.execute stores hash_password(password))
UserRows == [is_active : BOOLEAN, hashed_password : StoredPasswords]
UserTables == [Usernames -> Opt(UserRows)]

\* pwd_context.verify(plain_password, hashed_password): passlib's bcrypt
\* handler refuses a password with a NUL character by raising, else the
\* password is compared with the hash
verify_password(plain_password, hashed_password) ==
    IF \E i \in 1..Len(plain_password) : plain_password[i] = "\\0"
    THEN [raised |-> "NullPasswordError", valid |-> FALSE]
    ELSE [raised |-> "", valid |-> plain_password = hashed_password]

\* JWTService.create_access_token: jwt.encode with the key of the
\* environment, which raises when JWT_SECRET_KEY is not set
create_access_token(sub, key_set) ==
    IF key_set
    THEN [raised |-> "",
          token |-> Some([signed_with |-> "JWT_SECRET_KEY", expired |-> FALSE,
                          sub |-> Some(sub)])]
    ELSE [raised |-> "TypeError", token |-> None]

\* LoginUser.execute: lines 41-71
LoginUser_execute(table, username, password, key_set) ==
    LET user == table[username] IN
    IF user = None THEN [raised |-> "InvalidCredentialsError", token |-> None]
    ELSE IF ~user[1].is_active THEN [raised |-> "UserInactiveError", token |-> None]
    ELSE LET v == verify_password(password, user[1].hashed_password) IN
         IF v.raised # "" THEN [raised |-> v.raised, token |-> None]
         ELSE IF ~v.valid THEN [raised |-> "InvalidCredentialsError", token |-> None]
         ELSE create_access_token(username, key_set)

\* the except clauses of the route: lines 117-127
LoginStatus(out) ==
    IF out.raised = "" THEN 200
    ELSE IF out.raised \in {"InvalidCredentialsError", "UserInactiveError"} THEN 401
    ELSE 500

InitLogin ==
    /\ pc = "idle"
    /\ books_csv = NoFile
    /\ api = NoRequest
    /\ runs = NoRuns
    /\ users \in [table : UserTables, key_set : BOOLEAN, issued : {<<>>}]
    /\ metrics = NoMetrics
    /\ current_url = None
    /\ page_num = 0
    /\ books_on_page = <<>>
    /\ idx = 0
    /\ next_page_element = None
    /\ all_books_data = <<>>
    /\ result = None
    /\ exc = ""
    /\ csv_file = None
    /\ attempts = <<>>
    /\ origins = <<>>
    /\ last = NoItem
    /\ fetches = <<>>
    /\ walk_end = ""

\* POST /v1/auth/login
LoginRoute ==
    /\ Len(users.issued) < MaxLogins
    /\ \E username \in Usernames, password \in Passwords :
         LET out == LoginUser_execute(users.table, username, password, users.key_set)
         IN /\ api' = [route |-> "/v1/auth/login", username |-> username,
                       password |-> password, use_case |-> out,
                       status |-> LoginStatus(out),
                       body |-> IF out.raised = "" THEN out.token ELSE None]
            /\ users' = [users EXCEPT !.issued = IF out.token # None
                                                 THEN Append(@, out.token[1]) ELSE @]
    /\ UNCHANGED <<RunVars, books_csv, runs, metrics>>

NextLogin == LoginRoute

SpecLogin == InitLogin /\ [][NextLogin]_vars

(***************************************************************************)
(* SystemMetricsCollector: start, stop and the collection loop, as the     *)
(* event loop runs them.  The caller awaits each call before the next.     *)
(***************************************************************************)
\* get_system_metrics_collector: the instance of the module, made at the
\* first call
TheCollector ==
    IF metrics.collector = None THEN [is_running |-> FALSE, task |-> None]
    ELSE metrics.collector[1]

\* the tasks that have not finished
AliveTasks == {t \in 1..Len(metrics.tasks) : metrics.tasks[t].at \in {"created", "sleeping"}}

\* variant: start never finds the collector running
AlreadyRunning_Never(collector) == FALSE

\* if self.is_running: return (lines 29-31)
AlreadyRunning(collector) == collector.is_running

\* get_system_metrics_collector(...).start(): lines 27-38
MetricsStart ==
    /\ metrics.caller = "idle"
    /\ metrics.calls < MaxCalls
    /\ LET c == TheCollector IN
       IF AlreadyRunning(c)
       THEN metrics' = [metrics EXCEPT !.collector = Some(c), !.calls = @ + 1]
       ELSE metrics' = [metrics EXCEPT
                          !.collector = Some([is_running |-> TRUE,
                                              task |-> Some(Len(metrics.tasks) + 1)]),
                          !.tasks = Append(@, [at |-> "created", must_cancel |-> FALSE,
                                               sent |-> 0]),
                          !.quiet = FALSE,
                          !.calls = @ + 1]
    /\ UNCHANGED <<RunVars, books_csv, api, runs, users>>

\* get_system_metrics_collector().stop() up to await self._task: lines 42-46;
\* cancel() on a task that has finished does nothing
MetricsStop ==
    /\ metrics.caller = "idle"
    /\ metrics.calls < MaxCalls
    /\ LET c == TheCollector IN
       IF c.task = None
       THEN metrics' = [metrics EXCEPT
                          !.collector = Some([c EXCEPT !.is_running = FALSE]),
                          !.quiet = TRUE,
                          !.calls = @ + 1]
       ELSE metrics' = [metrics EXCEPT
                          !.collector = Some([c EXCEPT !.is_running = FALSE]),
                          !.tasks[c.task[1]].must_cancel =
                              (metrics.tasks[c.task[1]].at \in {"created", "sleeping"}),
                          !.caller = "in_stop",
                          !.calls = @ + 1]
    /\ UNCHANGED <<RunVars, books_csv, api, runs, users>>

\* await self._task ends, with CancelledError or without: lines 46-49
MetricsStopReturn ==
    /\ metrics.caller = "in_stop"
    /\ metrics.tasks[TheCollector.task[1]].at \in {"done", "cancelled"}
    /\ metrics' = [metrics EXCEPT !.caller = "idle", !.quiet = TRUE]
    /\ UNCHANGED <<RunVars, books_csv, api, runs, users>>

\* the event loop runs a task up to its next await: _collect_loop, lines
\* 53-58.  A task cancelled before its first step never runs; CancelledError
\* at the sleep breaks the loop; else the loop tests is_running, sends the
\* metrics and sleeps
TaskStep(t) ==
    /\ t \in AliveTasks
    /\ LET task == metrics.tasks[t] IN
       IF task.must_cancel
       THEN metrics' = [metrics EXCEPT
                          !.tasks[t].at = IF task.at = "created" THEN "cancelled"
                                          ELSE "done"]
       ELSE IF ~TheCollector.is_running
       THEN metrics' = [metrics EXCEPT !.tasks[t].at = "done"]
       ELSE /\ task.sent < MaxTicks
            /\ metrics' = [metrics EXCEPT
                             !.tasks[t].at = "sleeping",
                             !.tasks[t].sent = @ + 1,
                             !.late = IF metrics.quiet THEN @ + 1 ELSE @]
    /\ UNCHANGED <<RunVars, books_csv, api, runs, users>>

NextMetrics ==
    \/ MetricsStart
    \/ MetricsStop
    \/ MetricsStopReturn
    \/ \E t \in 1..Len(metrics.tasks) : TaskStep(t)

SpecMetrics == Init /\ [][NextMetrics]_vars

(***************************************************************************)
(* Properties.                                                             *)
(***************************************************************************)
Item(i) == all_books_data[i]
Processed(item) == item.page > 0 /\ item.response.ok

\* a node that some field requires is absent from the page
MissingNode(doc) ==
    \/ doc.h1 = None
    \/ doc.price_color = None
    \/ doc.star_rating = None
    \/ (doc.star_rating # None /\ Len(doc.star_rating[1]) < 2)
    \/ doc.availability = None
    \/ doc.breadcrumb = None
    \/ doc.product_gallery = None
    \/ (doc.product_gallery # None /\ doc.product_gallery[1] = None)

\* C1: a detail page that lacks a required node only skips its item: no
\* exception leaves _get_book_details, _scrape_all_books or execute and the
\* item yields no record.
C1_MissingNodeSkipsItem ==
    (Processed(last) /\ MissingNode(last.response.doc))
        => (last.raised = "" /\ last.value = None /\ pc # "raised" /\ exc = "")

ShortBreadcrumb(doc) == doc.breadcrumb # None /\ Len(doc.breadcrumb[1]) < 3

\* C2: a detail page whose breadcrumb has fewer than three links only skips
\* its item: no record is added and no exception ends the run.
C2_ShortBreadcrumbSkipsItem ==
    (Processed(last) /\ ShortBreadcrumb(last.response.doc))
        => (last.raised = "" /\ last.value = None /\ pc # "raised" /\ exc = "")

\* the price texts of PriceTexts that float() rejects once the pound sign and
\* the surrounding blanks are gone
NonNumericPrices == {<<"£", "x">>, <<"£", "5", " ", "5">>, <<"£", "-">>, <<"£">>}
MalformedPrice(item) ==
    /\ Processed(item)
    /\ item.response.doc.h1 # None
    /\ item.response.doc.price_color # None
    /\ item.response.doc.price_color[1] \in NonNumericPrices

\* C3: an item whose price text is not numeric is skipped: the step that
\* processes it leaves the accumulator as it was, raises nothing and moves
\* on to the next card.
C3_MalformedPriceSkipped ==
    [][(attempts' # attempts /\ MalformedPrice(last'))
         => /\ last'.value = None
            /\ Last(attempts').err = "ValueError"
            /\ all_books_data' = all_books_data
            /\ exc' = "" /\ pc' = "items" /\ idx' = idx + 1]_vars

C3_Witness ==
    /\ MalformedPrice(last)
    /\ pc = "done"
    /\ Len(attempts) = 3
    /\ Len(all_books_data) = 2

TwoPageScenario ==
    /\ pc = "done"
    /\ walk_end = "no_next"
    /\ [i \in 1..Len(fetches) |-> <<fetches[i].kind, fetches[i].ok>>]
         = << <<"listing", TRUE>>, <<"detail", TRUE>>, <<"detail", TRUE>>,
              <<"listing", TRUE>>, <<"detail", TRUE>> >>
    /\ attempts = << [page |-> 1, pos |-> 1, err |-> "ValueError"],
                     [page |-> 1, pos |-> 2, err |-> ""],
                     [page |-> 2, pos |-> 1, err |-> ""] >>

ListingFailed(log) ==
    log # <<>> /\ Last(log).kind = "listing" /\ ~Last(log).ok

\* C5: when the fetch of a listing page fails the walk returns at once with
\* the accumulator as it was, nothing is fetched afterwards, no exception
\* leaves the run and the run reports exactly the accumulated records.
C5_ListingFailureEndsWalk ==
    [][/\ (fetches' # fetches /\ ListingFailed(fetches'))
            => /\ pc' = "returned"
               /\ all_books_data' = all_books_data
               /\ exc' = ""
       /\ ListingFailed(fetches)
            => /\ fetches' = fetches
               /\ all_books_data' = all_books_data
               /\ exc' = ""
               /\ pc' = "done"
               /\ result'[1].books_count = Len(all_books_data)]_vars

C5_Witness ==
    /\ ListingFailed(fetches)
    /\ pc = "done"
    /\ page_num = 2
    /\ Len(all_books_data) = 2
    /\ result[1].books_count = 2

\* C6: the dataset of N records has the ids 1..N in input order: the row at
\* 0-based position i has id i+1 and carries the fields of record i.
C6_SequentialIds ==
    csv_file # None =>
        LET rows == csv_file[1].rows IN
        /\ Len(rows) = Len(all_books_data)
        /\ Len(rows) > 0
        /\ \A i \in 1..Len(rows) :
              /\ rows[i].id = i
              /\ \A c \in DOMAIN Item(i) : rows[i][c] = Item(i)[c]

C6_Witness ==
    /\ csv_file # None
    /\ Len(csv_file[1].rows) = 2
    /\ attempts[1].err # ""

Before(a, b) == a[1] < b[1] \/ (a[1] = b[1] /\ a[2] < b[2])

\* C7: the records are in discovery order: record i comes before record j
\* exactly when it was found on an earlier listing page or earlier on the
\* same page, every new record goes to the end, and the records already
\* there keep their places.
C7_DiscoveryOrder ==
    /\ [](/\ Len(origins) = Len(all_books_data)
          /\ \A i, j \in 1..Len(origins) : (i < j) <=> Before(origins[i], origins[j]))
    /\ [][all_books_data' # all_books_data =>
            /\ last'.value # None
            /\ all_books_data' = all_books_data \o <<last'.value[1]>>
            /\ origins' = origins \o << <<last'.page, last'.pos>> >>]_vars

C7_Witness ==
    /\ pc = "done"
    /\ Len(all_books_data) = 2
    /\ origins[1][1] = 1 /\ origins[2][1] = 2
    /\ Len(attempts) = 3

\* C8: every record of the result has the six fields, with values of the
\* declared types, and a non-empty title.
C8_CompleteRecords ==
    \A i \in 1..Len(all_books_data) :
        /\ DOMAIN Item(i) = {"title", "price", "rating", "avaliability",
                             "category", "image_url"}
        /\ Item(i).title # ""
        /\ Item(i).price \in Int
        /\ Item(i).rating \in Int
        /\ Item(i).avaliability \in Nat
        /\ HasScheme(Item(i).image_url)

\* C9: every record of the result has a price that is not negative.
C9_PriceNotNegative ==
    \A i \in 1..Len(all_books_data) : Item(i).price >= 0

\* every field but the rating is there and well formed
RatingAside(doc) ==
    /\ doc.h1 # None
    /\ doc.price_color # None /\ doc.price_color[1] \notin NonNumericPrices
    /\ doc.availability # None
    /\ doc.breadcrumb # None /\ Len(doc.breadcrumb[1]) >= 3
    /\ doc.product_gallery # None
    /\ doc.product_gallery[1] # None
    /\ doc.product_gallery[1][1] # None

RatingTable ==
    [t \in RatingTokens |->
        IF t = "One" THEN 1 ELSE IF t = "Two" THEN 2 ELSE IF t = "Three" THEN 3
        ELSE IF t = "Four" THEN 4 ELSE IF t = "Five" THEN 5 ELSE 0]

AvailAside(doc) ==
    /\ doc.h1 # None
    /\ doc.price_color # None /\ doc.price_color[1] \notin NonNumericPrices
    /\ doc.star_rating # None /\ Len(doc.star_rating[1]) >= 2
    /\ doc.breadcrumb # None /\ Len(doc.breadcrumb[1]) >= 3
    /\ doc.product_gallery # None
    /\ doc.product_gallery[1] # None
    /\ doc.product_gallery[1][1] # None

\* the count each text of AvailTexts carries
AvailTable(text) ==
    CASE text = <<"x", "(", "7", "a">> -> 7
      [] text = <<" ", "x", "(", "1", "2", "a", " ">> -> 12
      [] text = <<"x">> -> 0
      [] text = <<"(", "a">> -> 0
      [] text = <<"(", "7", "a", "(", "2", "a">> -> 7

\* C11: the availability count is the n of "(n available)" and 0 for a text
\* without that pattern; such a text raises nothing and the item is kept;
\* the count of every record is not negative.
C11_AvailabilityCount ==
    /\ \A i \in 1..Len(all_books_data) : Item(i).avaliability >= 0
    /\ (pc # "extract" /\ last.response.ok /\ AvailAside(last.response.doc)
        /\ last.response.doc.availability # None)
         => /\ pc = "extracted"
            /\ last.raised = ""
            /\ last.value # None
            /\ last.value[1].avaliability = AvailTable(last.response.doc.availability[1])
            /\ all_books_data = <<last.value[1]>>

C11_Witness ==
    /\ pc = "extracted"
    /\ last.response.ok
    /\ AvailAside(last.response.doc)
    /\ last.response.doc.availability = Some(<<"x">>)
    /\ all_books_data # <<>>
    /\ all_books_data[1].avaliability = 0

\* the fields read before the breadcrumb are there and well formed
BeforeBreadcrumb(doc) ==
    /\ doc.h1 # None
    /\ doc.price_color # None /\ doc.price_color[1] \notin NonNumericPrices
    /\ doc.star_rating # None /\ Len(doc.star_rating[1]) >= 2
    /\ doc.availability # None

NoBreadcrumb(item) == item.response.ok /\ item.response.doc.breadcrumb = None

\* C12: a page without breadcrumb is attempted and adds no record, so the
\* number of records does not grow while the number of attempts does; when
\* the fields read before the breadcrumb are there, the failure is the
\* missing-node error that _get_book_details catches and turns into None.
C12_NoBreadcrumbNoRecord ==
    (pc # "extract" /\ NoBreadcrumb(last))
        => /\ Len(attempts) = 1
           /\ all_books_data = <<>>
           /\ last.value = None
           /\ BeforeBreadcrumb(last.response.doc)
                => /\ attempts[1].err = "AttributeError"
                   /\ last.raised = "" /\ exc = "" /\ pc = "extracted"

C12_Witness ==
    /\ pc = "extracted"
    /\ NoBreadcrumb(last)
    /\ BeforeBreadcrumb(last.response.doc)
    /\ last.response.doc.product_gallery # None
    /\ Len(attempts) = 1
    /\ all_books_data = <<>>

DetailFailed(log) ==
    log # <<>> /\ Last(log).kind = "detail" /\ ~Last(log).ok

\* C13: a failed fetch of a detail URL adds nothing to the accumulator,
\* raises nothing and leaves the walk where it was, at the next card of the
\* same listing page with the same next-page link.
C13_DetailFailureSkipsItem ==
    [][(fetches' # fetches /\ DetailFailed(fetches'))
         => /\ all_books_data' = all_books_data
            /\ last'.value = None
            /\ exc' = "" /\ pc' = "items"
            /\ idx' = idx + 1
            /\ books_on_page' = books_on_page
            /\ next_page_element' = next_page_element
            /\ current_url' = current_url
            /\ walk_end' = "" /\ walk_end = ""]_vars

C13_Witness ==
    /\ pc = "done"
    /\ Len(attempts) = 3
    /\ attempts[1] = [page |-> 1, pos |-> 1, err |-> "RequestException"]
    /\ origins = << <<1, 2>>, <<2, 1>> >>

\* the image URL of a record read at url from a page with the reference ref
ExpectedImage(url, ref) ==
    IF ref.scheme # "" THEN ref
    ELSE IF ref.path = <<>> THEN url
    ELSE [scheme |-> "https", path |-> <<"media", "a.jpg">>]

\* C14: the image_url of every record has a scheme: a relative reference is
\* resolved against the URL of the detail page, an absolute one is kept.
C14_AbsoluteImageUrl ==
    /\ \A i \in 1..Len(all_books_data) : HasScheme(Item(i).image_url)
    /\ (pc = "extracted" /\ last.value # None)
         => /\ HasScheme(last.url)
            /\ last.value[1].image_url =
                 ExpectedImage(last.url, last.response.doc.product_gallery[1][1][1])

C14_Witness ==
    /\ pc = "extracted"
    /\ last.value # None
    /\ last.url.path = <<"catalogue", "a_1", "index.html">>
    /\ last.response.doc.product_gallery[1][1][1].scheme = ""
    /\ last.value[1].image_url = [scheme |-> "https", path |-> <<"media", "a.jpg">>]

\* C15 as stated: an empty accumulator is assembled into an empty dataset.
C15_EmptyDatasetAssembled ==
    (pc = "done" /\ all_books_data = <<>>)
        => /\ csv_file # None
           /\ csv_file[1].rows = <<>>

\* C15 amended: with an empty accumulator execute raises nothing, assembles
\* and writes no dataset, and reports the absence of data itself: success
\* false, books_count 0, no file path.
C15_EmptyRunReported ==
    (pc = "done" /\ all_books_data = <<>>)
        => /\ exc = ""
           /\ csv_file = None
           /\ ~result[1].success
           /\ result[1].books_count = 0
           /\ result[1].file_path = None

C15_Witness ==
    /\ pc = "done"
    /\ all_books_data = <<>>
    /\ Len(attempts) >= 1
    /\ ~result[1].success

\* C16: every row of the dataset is one record projected on the columns id,
\* title, price, rating, avaliability, category, image_url, in that order,
\* with no other column and none missing.
C16_ColumnProjection ==
    csv_file # None =>
        LET columns == csv_file[1].columns
            rows == csv_file[1].rows IN
        /\ columns = <<"id", "title", "price", "rating", "avaliability",
                       "category", "image_url">>
        /\ \A i \in 1..Len(rows) :
              /\ DOMAIN rows[i] = {columns[k] : k \in 1..Len(columns)}
              /\ \A c \in DOMAIN rows[i] \ {"id"} : rows[i][c] = Item(i)[c]
              /\ DOMAIN Item(i) = DOMAIN rows[i] \ {"id"}

C16_Witness ==
    /\ csv_file # None
    /\ Len(csv_file[1].rows) = 3

ListingUrls == SelectSeq(fetches, LAMBDA f : f.kind = "listing")

\* C20: no listing page URL is fetched twice in one run.
C20_NoListingRevisit ==
    \A i, j \in 1..Len(ListingUrls) :
        i # j => ListingUrls[i].url # ListingUrls[j].url


BooksRoutes == {"/v1/books", "/v1/books/search"}

\* a cell that cannot be converted to the type of its Book field
BadCell(row) ==
    \/ "id" \in DOMAIN row /\ ~IsIntText(Strip(row.id))
    \/ "price" \in DOMAIN row /\ ~IsFloatText(Strip(row.price))
    \/ "rating" \in DOMAIN row /\ ~IsIntText(Strip(row.rating))
    \/ "avaliability" \in DOMAIN row /\ ~IsIntText(Strip(row.avaliability))

\* C17: when a value of a row of the file cannot be converted to the type
\* of its Book field, get_all_books and search_books raise
\* DataValidationError.
C17_RaisesDataValidationError ==
    (api.route \in BooksRoutes /\ books_csv.state = "ok"
     /\ \E i \in 1..Len(books_csv.rows) : BadCell(books_csv.rows[i]))
        => api.repo.raised = "DataValidationError"

\* C19: the two routes never answer 200 with an empty list; no book from
\* the repository is BookNotFoundError and 404, BookRepositoryException
\* from the repository is 500.
C19_NoEmpty200 ==
    api.route \in BooksRoutes =>
        /\ api.status = 200 => api.body # <<>>
        /\ (api.repo.raised = "" /\ api.repo.books = <<>>)
              => api.use_case.raised = "BookNotFoundError" /\ api.status = 404
        /\ api.repo.raised = "BookRepositoryException"
              => api.use_case.raised = "BookRepositoryException" /\ api.status = 500
        /\ api.status \in {200, 404, 500}

C19_Witness ==
    /\ api.route = "/v1/books/search"
    /\ books_csv.state = "ok"
    /\ Len(books_csv.rows) = 2
    /\ api.title = <<"z">>
    /\ api.repo.raised = ""
    /\ api.status = 404


\* a bearer token signed with the key of the service, not expired, with sub
Authentic(authorization) ==
    /\ authorization # None
    /\ authorization[1].scheme = "Bearer"
    /\ authorization[1].token.signed_with = "JWT_SECRET_KEY"
    /\ ~authorization[1].token.expired
    /\ authorization[1].token.sub # None

\* C18: a request to POST /v1/scraper/run whose bearer token is absent,
\* fails verification, is expired or has no sub is answered 401, and execute
\* is not called: no fetch is made and the dataset file is not written.
C18_Unauthenticated401 ==
    (api.route = "/v1/scraper/run" /\ ~Authentic(api.authorization))
        => /\ api.status = 401
           /\ pc = "idle"
           /\ fetches = <<>>
           /\ csv_file = None


\* C21: every run eventually stops fetching and returns.
C21_WalkTerminates == <>(pc \in {"done", "raised"})


DetailFetches == SelectSeq(fetches, LAMBDA f : f.kind = "detail")

\* C22: no retry: each visit of a listing page is one fetch, each card of
\* a page is one detail fetch, a failed detail fetch is not repeated and a
\* failed listing fetch is the last fetch of the run, which then returns
\* without raising.
C22_NoRetry ==
    /\ \A i, j \in 1..Len(attempts) :
          i # j => <<attempts[i].page, attempts[i].pos>>
                     # <<attempts[j].page, attempts[j].pos>>
    /\ Len(DetailFetches) = Len(attempts)
    /\ pc = "items" => Len(ListingUrls) = page_num
    /\ pc = "page" => Len(ListingUrls) = page_num - 1
    /\ \A i \in 1..Len(fetches) :
          (fetches[i].kind = "listing" /\ ~fetches[i].ok)
              => /\ i = Len(fetches)
                 /\ pc \in {"returned", "done"}
                 /\ exc = ""
    /\ \A i \in 1..Len(attempts) :
          attempts[i].err = "RequestException"
              => /\ ~DetailFetches[i].ok
                 /\ (i = Len(attempts) /\ last.page = attempts[i].page)
                       => last.value = None /\ last.raised = ""

C22_Witness ==
    /\ pc = "done"
    /\ Len(fetches) = 4
    /\ fetches[2].kind = "detail" /\ ~fetches[2].ok
    /\ fetches[3].kind = "detail" /\ fetches[3].ok
    /\ fetches[4].kind = "listing" /\ ~fetches[4].ok
    /\ Len(all_books_data) = 1


Succeeded == {i \in 1..Len(attempts) : attempts[i].err = ""}

\* C23: detail URLs are not deduplicated: every card of a page is fetched
\* and attempted, also when its URL was fetched before, and every
\* successful extraction adds a record with an id of its own.
C23_NoDeduplication ==
    /\ (pc = "items" /\ exc = "")
          => LET n == Len(DetailFetches) IN
             \A j \in 1..(idx - 1) :
                /\ DetailFetches[n - (idx - 1) + j].url
                      = urljoin(BASE_URL, books_on_page[j][1][1][1])
                /\ attempts[n - (idx - 1) + j].page = page_num
                /\ attempts[n - (idx - 1) + j].pos = j
    /\ pc # "raised" => Len(all_books_data) = Cardinality(Succeeded)
    /\ csv_file # None
          => /\ Len(csv_file[1].rows) = Cardinality(Succeeded)
             /\ \A i, j \in 1..Len(csv_file[1].rows) :
                   i # j => csv_file[1].rows[i].id # csv_file[1].rows[j].id

C23_Witness ==
    /\ pc = "done"
    /\ Len(DetailFetches) = 3
    /\ \A i \in 1..3 : DetailFetches[i].url = DetailFetches[1].url
    /\ Len(all_books_data) = 3
    /\ all_books_data[1] = all_books_data[2]
    /\ all_books_data[2] = all_books_data[3]
    /\ csv_file # None
    /\ Len(csv_file[1].rows) = 3


\* the number of fetches of one kind among the first i of the log
CountKind(kind, i) ==
    Cardinality({k \in 1..i : fetches[k].kind = kind})

\* the position of the latest listing fetch among the first i of the log
LatestListing(i) ==
    CHOOSE k \in 0..i :
        /\ k > 0 => fetches[k].kind = "listing"
        /\ \A m \in (k + 1)..i : fetches[m].kind = "detail"

\* C24: the fetches of a run are strictly ordered: a listing page, then its
\* cards one after the other in card order, and the next listing page only
\* when the last card of the page has been processed; a step makes at most
\* one fetch, and extraction of an item is over before the next fetch.
C24_StrictlySequential ==
    /\ [](\A i \in 1..Len(fetches) :
            fetches[i].kind = "detail"
               => LET k == CountKind("detail", i) IN
                  /\ attempts[k].page = CountKind("listing", i)
                  /\ attempts[k].pos = i - LatestListing(i))
    /\ [][/\ Len(fetches') <= Len(fetches) + 1
          /\ (fetches' # fetches /\ Last(fetches').kind = "listing")
                => /\ pc = "page"
                   /\ Last(fetches').url = current_url[1]
          /\ (fetches' # fetches /\ Last(fetches').kind = "detail")
                => /\ pc = "items"
                   /\ Len(attempts') = Len(attempts) + 1
                   /\ Last(attempts').pos = idx
                   /\ last'.pos = idx /\ last'.page = page_num
          /\ (pc = "items" /\ pc' \in {"page", "returned"})
                => /\ idx = Len(books_on_page) + 1
                   /\ fetches' = fetches]_vars

C24_Witness ==
    /\ pc = "done"
    /\ Len(fetches) = 5
    /\ fetches[1].kind = "listing"
    /\ fetches[2].kind = "detail"
    /\ fetches[3].kind = "detail"
    /\ fetches[4].kind = "listing"
    /\ fetches[5].kind = "detail"
    /\ attempts[3].page = 2 /\ attempts[3].pos = 1


\* the book get_all_books is to return for the record at position i
SameBook(book, i, record) ==
    /\ book.id = i
    /\ book.title = StrV(StrText(record.title))
    /\ book.price = FloatV(record.price)
    /\ book.rating = record.rating
    /\ book.avaliability = record.avaliability
    /\ book.category = StrV(StrText(record.category))
    /\ book.image_url = StrV(UrlText(record.image_url))

\* the same for the values get_book_by_id takes from the frame
SameRow(row, i, record) ==
    /\ row.id = IntV(i)
    /\ row.title = StrV(StrText(record.title))
    /\ row.price = FloatV(record.price)
    /\ row.rating = IntV(record.rating)
    /\ row.avaliability = IntV(record.avaliability)
    /\ row.category = StrV(StrText(record.category))
    /\ row.image_url = StrV(UrlText(record.image_url))

\* C27: after a run that accumulated N records, get_all_books returns the N
\* books in order with the ids 1..N and the values of the records, and
\* get_book_by_id(i) returns the book at position i for i in 1..N and none
\* for any other id.
C27_RoundTrip ==
    (pc = "done" /\ all_books_data # <<>> /\ api.route # "" /\ api.file = books_csv)
        => LET N == Len(all_books_data) IN
           /\ api.route = "/v1/books"
                => /\ api.repo.raised = ""
                   /\ Len(api.repo.books) = N
                   /\ \A i \in 1..N :
                         SameBook(api.repo.books[i], i, all_books_data[i])
           /\ api.route = "/v1/books/{id}"
                => IF api.id \in 1..N
                   THEN /\ api.repo.raised = ""
                        /\ api.repo.book # None
                        /\ SameRow(api.repo.book[1], api.id, all_books_data[api.id])
                   ELSE /\ api.repo.raised = ""
                        /\ api.repo.book = None
                        /\ api.use_case.raised = "BookNotFoundError"

\* C25: of two executes that overlap, each keeps its own accumulator: at
\* every moment a run's accumulator holds exactly the records that run has
\* extracted itself, in order, a step of one run leaves the other run's
\* state alone, and the result a run returns counts its own records
C25_OwnAccumulator ==
    /\ [](\A r \in RunIds :
            /\ runs[r].all_books_data = runs[r].extracted
            /\ runs[r].result # None =>
                 runs[r].result[1] = ExecuteResult(runs[r].extracted))
    /\ [][\A r \in RunIds, q \in RunIds :
            (runs'[r] # runs[r] /\ q # r) => runs'[q] = runs[q]]_vars

\* both runs are in their walk, each with a record the other does not have
C25_Witness ==
    /\ \A r \in RunIds : runs[r].pc = "walk" /\ runs[r].all_books_data # <<>>
    /\ runs[1].all_books_data # runs[2].all_books_data

\* C26: a run opens books.csv at most once, and only after its walk has
\* returned with at least one record; a run that collected nothing and a
\* run that raised never open it, so the file changes only by the steps of
\* a run that is writing its records
C26_WriteOnceAfterWalk ==
    /\ [](\A r \in RunIds :
            /\ runs[r].opened <= 1
            /\ runs[r].opened = 1 =>
                 /\ runs[r].pc \in {"writing", "done"}
                 /\ runs[r].all_books_data # <<>>
            /\ (runs[r].pc = "raised"
                \/ (runs[r].pc = "done" /\ runs[r].all_books_data = <<>>)) =>
                 runs[r].opened = 0)
    /\ [][books_csv' # books_csv =>
            \E r \in RunIds :
                /\ runs[r].pc \in {"returned", "writing"}
                /\ runs'[r].pc = "writing"
                /\ runs[r].all_books_data # <<>>
                /\ runs'[r] # runs[r]]_vars

\* one run has written its file and is done, the other has ended with no
\* record or with an exception, and the file is still the first run's
C26_Witness ==
    \E r \in RunIds, q \in RunIds :
        /\ runs[r].pc = "done" /\ runs[r].opened = 1
        /\ \/ runs[q].pc = "raised"
           \/ (runs[q].pc = "done" /\ runs[q].all_books_data = <<>>)
        /\ books_csv = CompleteFile(runs[r].all_books_data)

\* C28: books.csv is never seen partly written or mixed: what GET /v1/books
\* finds on disk while runs execute, and what is on disk when every run has
\* ended, is the complete file of one run
C28_NeverPartial ==
    /\ (api.route = "/v1/books" /\ api.file.state # "missing") =>
          \E r \in RunIds :
              /\ runs[r].extracted # <<>>
              /\ api.file = CompleteFile(runs[r].extracted)
    /\ ((\A r \in RunIds : runs[r].pc \in {"done", "raised"})
        /\ books_csv.state # "missing") =>
          \E r \in RunIds :
              /\ runs[r].extracted # <<>>
              /\ books_csv = CompleteFile(runs[r].extracted)

\* C29: POST /v1/auth/login issues a token only to a user that exists, is
\* active and gave the stored password; in every other case execute raises
\* InvalidCredentialsError (unknown user, wrong password) or
\* UserInactiveError (inactive user), no token is created and the answer
\* is 401
C29_LoginOnlyWithCredentials ==
    api.route = "/v1/auth/login" =>
        LET user == users.table[api.username]
            good == /\ user # None
                    /\ user[1].is_active
                    /\ api.password = user[1].hashed_password
        IN /\ api.use_case.token # None => good
           /\ ~good =>
                /\ api.use_case.raised =
                      IF user = None THEN "InvalidCredentialsError"
                      ELSE IF ~user[1].is_active THEN "UserInactiveError"
                      ELSE "InvalidCredentialsError"
                /\ api.use_case.token = None
                /\ api.body = None
                /\ api.status = 401
           /\ \A k \in 1..Len(users.issued) :
                 LET owner == users.table[users.issued[k].sub[1]] IN
                 owner # None /\ owner[1].is_active

\* C30: at any moment at most one collection loop is alive; a start() that
\* finds is_running true creates no task, any other start() creates exactly
\* one; once stop() has returned is_running is false, no task is alive and
\* no metric is sent until the next start()
C30_OneCollectionLoop ==
    /\ [](/\ Cardinality(AliveTasks) <= 1
          /\ metrics.late = 0
          /\ metrics.quiet => (AliveTasks = {} /\ ~TheCollector.is_running)
          /\ (metrics.caller = "idle" /\ TheCollector.is_running) =>
                 TheCollector.task # None)
    /\ [][LET made == Len(metrics'.tasks) - Len(metrics.tasks) IN
          /\ made \in {0, 1}
          /\ (made = 1) <=> /\ metrics.caller = "idle"
                            /\ ~TheCollector.is_running
                            /\ metrics'.collector # None
                            /\ metrics'.collector[1].is_running]_vars

\* start, stop, start: the first loop has ended after sending, the stop has
\* returned, and the second loop is the one alive and has sent a metric
C30_Witness ==
    /\ Len(metrics.tasks) = 2
    /\ metrics.tasks[1].at = "done" /\ metrics.tasks[1].sent > 0
    /\ metrics.tasks[2].at = "sleeping" /\ metrics.tasks[2].sent > 0
    /\ metrics.caller = "idle"
    /\ metrics.calls = MaxCalls

=============================================================================
